---- MODULE Spec2Model ----
(***************************************************************************)
(* The Playwright gRPC wrapper of src/Browser/wrapper/index.ts as a state  *)
(* machine.  One PlaywrightServer object holds the field browserState; a   *)
(* handler is an async function, so it runs from its dispatch to its first *)
(* await in one step, and from the settling of an awaited engine promise   *)
(* to the next await (or to its end) in one step.  Handlers of different   *)
(* calls interleave at these points.  The engine (playwright) is opaque:   *)
(* each of its calls may resolve or reject.                                *)
(***************************************************************************)
EXTENDS Naturals, Sequences, FiniteSets

\* Number of calls the server holds at one time (in flight or just ended).
MaxInFlight == 2
\* Number of browsers the engine launches in one run.
MaxBrowsers == 2

Slots == 1..MaxInFlight

\* Request payloads.
Kinds == {"chrome", "firefox", "webkit", "opera"}
Urls == {"http://a"}
OpenUrls == {""} \cup Urls
Selectors == {"#a"}
Properties == {"checked"}
Inputs == {"txt"}
Matchers == {<<"v">>}
Paths == {"shot"}

\* What the engine hands back.
Titles == {"T"}
BlankUrl == "about:blank"
Null == <<>>

\* grpc status codes, by name (status.FAILED_PRECONDITION, status.NOT_FOUND).
FAILED_PRECONDITION == "FAILED_PRECONDITION"
NOT_FOUND == "NOT_FOUND"

VARIABLES
    browserState,   \* the field PlaywrightServer.browserState: {} (undefined) or {BrowserState}
    calls,          \* per slot: the call held there, its handler's position and what it did
    launched,       \* engine: number of browsers launched so far; handles are 1..launched
    live,           \* engine: browsers launched and not closed
    pageUrl,        \* engine: the URL of each browser's page
    sequential,     \* the client: TRUE when it issues one call at a time
    recent          \* in a sequential run: the calls that ended last, before the current one

vars == <<browserState, calls, launched, live, pageUrl, sequential, recent>>

\* class BrowserState: the triple of handles.  The context and the page of a
\* browser are named by the browser's handle.
BrowserState(browser, context, page) ==
    [browser |-> browser, context |-> context, page |-> page]

\* class PwserverError: an Error with a message and a status code.
PwserverError(details, code) == [message |-> details, code |-> code]

\* callback(err, value): one invocation of the response callback.
Callback(err, value) == [err |-> err, value |-> value]

\* The response messages, each named by its class: a Response.Empty holds its
\* log line, a Response.String and a Response.Bool their body, a
\* Response.Select its entries.  A text built by concatenation is the sequence
\* of its pieces.
ResponseEmpty(log) == [Empty |-> log]
ResponseString(body) == [String |-> body]
ResponseBool(body) == [Bool |-> body]
ResponseSelect(entry) == [Select |-> entry]

\* emptyWithLog(text): a Response.Empty carrying a log line.
emptyWithLog(text) == ResponseEmpty(text)

NoReq == [browser |-> "", url |-> "", selector |-> "", property |-> "",
          input |-> "", matcher |-> <<>>, path |-> ""]

\* A slot that holds no call.
Idle == [op |-> "none", req |-> NoReq, pc |-> "idle", resp |-> <<>>, eng |-> <<>>,
         err |-> "", b |-> 0, local |-> ""]

\* A call as dispatched: nothing delivered, no engine call issued.
NewCall(op, req) ==
    [op |-> op, req |-> req, pc |-> "run", resp |-> <<>>, eng |-> <<>>,
     err |-> "", b |-> 0, local |-> ""]

Ended(c) == c.pc \in {"idle", "done", "threw"}

\* exists with the status code of a missing resource instead of a failed
\* precondition.
exists_NotFound(obj, resp, message) ==
    IF obj = {} THEN Append(resp, Callback(<<PwserverError(message, NOT_FOUND)>>, Null))
    ELSE resp

\* function exists (lines 10-14): when obj is not trueish the callback is
\* called with a FAILED_PRECONDITION error; the function returns either way.
exists(obj, resp, message) ==
    IF obj = {} THEN Append(resp, Callback(<<PwserverError(message, FAILED_PRECONDITION)>>, Null))
    ELSE resp

\* The backquote character of the message at line 225, by its character code:
\* a string here cannot hold one.
Backquote == 96

\* The message each handler hands to exists(this.browserState, ...): lines 72,
\* 99, 106, 115, 125, 135, 152, 169, 191, 201, 210, 217, 225 and 246.
NoBrowserMessage(op) ==
    CASE op = "closeBrowser" -> <<"Tried to close browser but none was open">>
      [] op = "goTo" -> <<"Tried to open URl but had no browser open">>
      [] op = "getTitle" -> <<"Tried to get title, no open browser">>
      [] op = "getUrl" -> <<"Tried to get page URL, no open browser">>
      [] op = "getTextContent" -> <<"Tried to find text on page, no open browser">>
      [] op = "getDomProperty" -> <<"Tried to get DOM property, no open browser">>
      [] op = "getBoolProperty" -> <<"Tried to get DOM property, no open browser">>
      [] op = "getSelectContent" -> <<"Tried to get Select element contents, no open browser">>
      [] op = "inputText" -> <<"Tried to input text, no open browser">>
      [] op = "clickButton" -> <<"Tried to click button, no open browser">>
      [] op = "checkCheckbox" -> <<"Tried to check checkbox, no open browser">>
      [] op = "uncheckCheckbox" -> <<"Tried to uncheck checkbox, no open browser">>
      [] op = "selectOption" ->
            <<"Tried to select ", Backquote, Backquote, "select", Backquote, Backquote,
              " element option, no open browser">>
      [] op = "screenshot" -> <<"Tried to take screenshot, no open browser">>

\* The handler's promise rejects: an exception left the async function.
Throw(c, resp, e) == [c EXCEPT !.pc = "threw", !.resp = resp, !.err = e]

\* The handler issues an engine call on browser bh and awaits it at pc.
Await(c, resp, name, bh, pc) ==
    [c EXCEPT !.pc = pc, !.resp = resp, !.eng = Append(@, <<name, bh>>), !.b = bh]

\* The handler calls the callback with a success payload and returns.
Return(c, value) ==
    [c EXCEPT !.pc = "done", !.resp = Append(@, Callback(Null, <<value>>))]

\* The server as started (lines 257-262), before any call.
Started ==
    /\ browserState = {}
    /\ calls = [s \in Slots |-> Idle]
    /\ launched = 0
    /\ live = {}
    /\ pageUrl = [h \in 1..MaxBrowsers |-> BlankUrl]
    /\ recent = <<>>

\* Clients that call at any time: handlers interleave at their awaits.
Init == Started /\ sequential = FALSE

\* What a sequential run remembers of a call that ended: the operation and
\* whether its handler returned (having called back with a success) or threw.
Summary(c) == [op |-> c.op, returned |-> c.pc = "done"]

\* The number of ended calls a sequential run remembers.
Window == 2

Remember(c) ==
    IF c.op = "none" THEN recent
    ELSE LET all == Append(recent, Summary(c))
         IN  IF Len(all) > Window THEN Tail(all) ELSE all

\* A call arrives and takes slot s, which holds no call in flight.  A
\* sequential client calls only once its last call has ended, and its calls
\* take slot 1 one after the other.
Arrives(s) ==
    /\ Ended(calls[s])
    /\ sequential => s = 1
    /\ recent' = IF sequential THEN Remember(calls[s]) ELSE recent
    /\ UNCHANGED sequential

\* The engine promise the handler in slot s awaits at pc settles.
Resumes(s, pc) ==
    /\ calls[s].pc = pc
    /\ UNCHANGED <<sequential, recent>>

\* The session the handler reads through this.browserState.
Current == CHOOSE bs \in browserState : TRUE

\* Handles of launches issued and not yet settled.
PendingLaunches == Cardinality({s \in Slots : calls[s].pc = "launch"})

\* The engine is opaque: a call on browser bh, on its page or on an element of
\* it may resolve (TRUE) or reject (FALSE), whatever the state of the browser.
Outcomes(bh) == BOOLEAN

\* Where a navigation to url that resolved has left the page: at url, or at
\* the address the engine was redirected to or rewrote url into.  page.url()
\* reports where the page is.
Landings(url) == {url, url \o "/"}

\* createBrowserState with chromium as the fallback of the chain.
createBrowserState_DefaultChromium(browserType) ==
    IF browserType = "firefox" THEN "firefox.launch"
    ELSE IF browserType = "webkit" THEN "webkit.launch"
    ELSE "chromium.launch"

\* createBrowserState, lines 28-36: the launcher chosen for browserType, or
\* "" where the function throws Error("unsupported browser").
createBrowserState(browserType) ==
    IF browserType = "firefox" THEN "firefox.launch"
    ELSE IF browserType = "chrome" THEN "chromium.launch"
    ELSE IF browserType = "webkit" THEN "webkit.launch"
    ELSE ""

\* openBrowser (lines 81-86), to the await of the launch inside
\* createBrowserState; an unsupported browserType rejects before any engine
\* call and before the assignment to this.browserState.
openBrowser(s, browserType, url) ==
    /\ Arrives(s)
    /\ LET c == NewCall("openBrowser", [NoReq EXCEPT !.browser = browserType, !.url = url])
           launcher == createBrowserState(browserType)
       IN  IF launcher = ""
           THEN calls' = [calls EXCEPT ![s] = Throw(c, c.resp, "unsupported browser")]
           ELSE /\ launched + PendingLaunches < MaxBrowsers
                /\ calls' = [calls EXCEPT ![s] = Await(c, c.resp, launcher, 0, "launch")]
    /\ UNCHANGED <<browserState, launched, live, pageUrl>>

\* createBrowserState, lines 29-37: the launch settles; newContext is issued.
launchSettled(s) ==
    /\ Resumes(s, "launch")
    /\ LET c == calls[s]
           bh == launched + 1
       IN  \E ok \in BOOLEAN :
             IF ok
             THEN /\ launched' = bh
                  /\ live' = live \cup {bh}
                  /\ pageUrl' = [pageUrl EXCEPT ![bh] = BlankUrl]
                  /\ calls' = [calls EXCEPT ![s] = Await(c, c.resp, "newContext", bh, "newContext")]
             ELSE /\ calls' = [calls EXCEPT ![s] = Throw(c, c.resp, "engine")]
                  /\ UNCHANGED <<launched, live, pageUrl>>
    /\ UNCHANGED browserState

\* createBrowserState, lines 37-38: newContext settles; newPage is issued.
newContextSettled(s) ==
    /\ Resumes(s, "newContext")
    /\ LET c == calls[s]
       IN  \E ok \in BOOLEAN :
             calls' = [calls EXCEPT ![s] =
                 IF ok THEN Await(c, c.resp, "newPage", c.b, "newPage")
                 ELSE Throw(c, c.resp, "engine")]
    /\ UNCHANGED <<browserState, launched, live, pageUrl>>

\* The assignment made only when no session is stored yet.
StoredState_KeepsFirst(old, bh) ==
    IF old # {} THEN old ELSE {BrowserState(bh, bh, bh)}

\* The session openBrowser stores once createBrowserState has resolved.
StoredState(old, bh) == {BrowserState(bh, bh, bh)}

\* The session assigned also when newPage rejects.
newPageSettled_StoresOnFailure(s) ==
    /\ Resumes(s, "newPage")
    /\ LET c == calls[s]
       IN  \E ok \in BOOLEAN :
             /\ browserState' = StoredState(browserState, c.b)
             /\ calls' = [calls EXCEPT ![s] =
                   IF ~ok THEN Throw(c, c.resp, "engine")
                   ELSE IF c.req.url # ""
                   THEN Await(c, c.resp, "goto", c.b, "openUrlInPage")
                   ELSE Return(c, ResponseEmpty(<<>>))]
    /\ UNCHANGED <<launched, live, pageUrl>>

\* createBrowserState, lines 38-39, and openBrowser, lines 86-93: newPage
\* settles, the new BrowserState is assigned to this.browserState, and either
\* the navigation to url is issued or the callback is called.
newPageSettled(s) ==
    /\ Resumes(s, "newPage")
    /\ LET c == calls[s]
       IN  \E ok \in BOOLEAN :
             IF ok
             THEN /\ browserState' = StoredState(browserState, c.b)
                  /\ calls' = [calls EXCEPT ![s] =
                        IF c.req.url # ""
                        THEN Await(c, c.resp, "goto", c.b, "openUrlInPage")
                        ELSE Return(c, ResponseEmpty(<<>>))]
             ELSE /\ calls' = [calls EXCEPT ![s] = Throw(c, c.resp, "engine")]
                  /\ UNCHANGED browserState
    /\ UNCHANGED <<launched, live, pageUrl>>

\* openUrlInPage with the session dropped again when the navigation fails.
openUrlInPage_RollsBack(s) ==
    /\ Resumes(s, "openUrlInPage")
    /\ LET c == calls[s]
       IN  \E ok \in Outcomes(c.b), at \in Landings(c.req.url) :
             IF ok
             THEN /\ pageUrl' = [pageUrl EXCEPT ![c.b] = at]
                  /\ calls' = [calls EXCEPT ![s] =
                        Return(c, ResponseEmpty(<<"Succesfully opened URL ", c.req.url>>))]
                  /\ UNCHANGED browserState
             ELSE /\ calls' = [calls EXCEPT ![s] = Throw(c, c.resp, "engine")]
                  /\ browserState' = {}
                  /\ UNCHANGED pageUrl
    /\ UNCHANGED <<launched, live>>

\* openUrlInPage (lines 64-69) and openBrowser, lines 89-93: the navigation
\* settles; the log line is set and the callback called.
openUrlInPage(s) ==
    /\ Resumes(s, "openUrlInPage")
    /\ LET c == calls[s]
       IN  \E ok \in Outcomes(c.b), at \in Landings(c.req.url) :
             IF ok
             THEN /\ pageUrl' = [pageUrl EXCEPT ![c.b] = at]
                  /\ calls' = [calls EXCEPT ![s] =
                        Return(c, ResponseEmpty(<<"Succesfully opened URL ", c.req.url>>))]
             ELSE /\ calls' = [calls EXCEPT ![s] = Throw(c, c.resp, "engine")]
                  /\ UNCHANGED pageUrl
    /\ UNCHANGED <<browserState, launched, live>>

\* The reference left as it is once browser.close() resolved.
ClearedState_Keeps(old) == old

\* What closeBrowser leaves in this.browserState once browser.close() resolved.
ClearedState(old) == {}

\* closeBrowser closing the first browser launched instead of the browser of
\* the current session.
closeBrowser_ClosesFirst(s) ==
    /\ Arrives(s)
    /\ LET c == NewCall("closeBrowser", NoReq)
           r == exists(browserState, c.resp, NoBrowserMessage(c.op))
       IN  calls' = [calls EXCEPT ![s] =
               IF browserState = {} THEN Throw(c, r, "TypeError")
               ELSE Await(c, r, "close", 1, "close")]
    /\ UNCHANGED <<browserState, launched, live, pageUrl>>

\* closeBrowser (lines 71-74), to the await of browser.close().
closeBrowser(s) ==
    /\ Arrives(s)
    /\ LET c == NewCall("closeBrowser", NoReq)
           r == exists(browserState, c.resp, NoBrowserMessage(c.op))
       IN  calls' = [calls EXCEPT ![s] =
               IF browserState = {} THEN Throw(c, r, "TypeError")
               ELSE Await(c, r, "close", Current.browser, "close")]
    /\ UNCHANGED <<browserState, launched, live, pageUrl>>

\* closeBrowser (lines 74-78): browser.close() settles; when it resolved,
\* this.browserState is cleared and the callback called.
closeSettled(s) ==
    /\ Resumes(s, "close")
    /\ LET c == calls[s]
       IN  \E ok \in BOOLEAN :
             IF ok
             THEN /\ live' = live \ {c.b}
                  /\ browserState' = ClearedState(browserState)
                  /\ calls' = [calls EXCEPT ![s] = Return(c, emptyWithLog(<<"Closed browser">>))]
             ELSE /\ calls' = [calls EXCEPT ![s] = Throw(c, c.resp, "engine")]
                  /\ UNCHANGED <<browserState, live>>
    /\ UNCHANGED <<launched, pageUrl>>

\* The opening of every page-level handler: exists(this.browserState, ...)
\* and then this.browserState.page.<name>(...), as in goTo, lines 99-100.
\* With no session the callback gets the error and the property read of
\* undefined throws a TypeError before any engine call; otherwise the engine
\* call is issued on the current page and awaited at pc.
Enter(c, name, pc) ==
    LET r == exists(browserState, c.resp, NoBrowserMessage(c.op))
    IN  IF browserState = {} THEN Throw(c, r, "TypeError")
        ELSE Await(c, r, name, Current.page, pc)

\* A handler awaiting one engine call and then acknowledging with a log line,
\* as goTo, lines 100-102: the engine rejects, or the callback is called.
Settle(s, pc, value) ==
    /\ Resumes(s, pc)
    /\ LET c == calls[s]
       IN  \E ok \in Outcomes(c.b) :
             calls' = [calls EXCEPT ![s] =
                 IF ok THEN Return(c, value) ELSE Throw(c, c.resp, "engine")]

\* goTo (lines 96-100).
goTo(s, url) ==
    /\ Arrives(s)
    /\ calls' = [calls EXCEPT ![s] =
          Enter(NewCall("goTo", [NoReq EXCEPT !.url = url]),
                "goto", "goTo")]
    /\ UNCHANGED <<browserState, launched, live, pageUrl>>

\* goTo giving the session up when the navigation fails.
goToSettled_DropsSession(s) ==
    /\ Resumes(s, "goTo")
    /\ LET c == calls[s]
       IN  \E ok \in Outcomes(c.b), at \in Landings(c.req.url) :
             IF ok
             THEN /\ pageUrl' = [pageUrl EXCEPT ![c.b] = at]
                  /\ calls' = [calls EXCEPT ![s] =
                        Return(c, emptyWithLog(<<"Succesfully opened URL">>))]
                  /\ UNCHANGED browserState
             ELSE /\ calls' = [calls EXCEPT ![s] = Throw(c, c.resp, "engine")]
                  /\ browserState' = {}
                  /\ UNCHANGED pageUrl
    /\ UNCHANGED <<launched, live>>

\* goTo (lines 100-102): page.goto settles.
goToSettled(s) ==
    /\ Resumes(s, "goTo")
    /\ LET c == calls[s]
       IN  \E ok \in Outcomes(c.b), at \in Landings(c.req.url) :
             IF ok
             THEN /\ pageUrl' = [pageUrl EXCEPT ![c.b] = at]
                  /\ calls' = [calls EXCEPT ![s] =
                        Return(c, emptyWithLog(<<"Succesfully opened URL">>))]
             ELSE /\ calls' = [calls EXCEPT ![s] = Throw(c, c.resp, "engine")]
                  /\ UNCHANGED pageUrl
    /\ UNCHANGED <<browserState, launched, live>>

\* getTitle (lines 105-108).
getTitle(s) ==
    /\ Arrives(s)
    /\ calls' = [calls EXCEPT ![s] =
          Enter(NewCall("getTitle", NoReq),
                "title", "getTitle")]
    /\ UNCHANGED <<browserState, launched, live, pageUrl>>

\* getTitle (lines 108-111): page.title settles.
getTitleSettled(s) ==
    /\ \E title \in Titles : Settle(s, "getTitle", ResponseString(title))
    /\ UNCHANGED <<browserState, launched, live, pageUrl>>

\* getUrl reading the page of the first browser launched instead of the page
\* of the current session.
getUrl_FirstPage(s) ==
    /\ Arrives(s)
    /\ LET c == Enter(NewCall("getUrl", NoReq),
                "url", "getUrl")
       IN  calls' = [calls EXCEPT ![s] =
               IF c.pc = "threw" THEN c ELSE Return(c, ResponseString(pageUrl[1]))]
    /\ UNCHANGED <<browserState, launched, live, pageUrl>>

\* getUrl (lines 114-120): page.url() is synchronous, the handler has no await.
getUrl(s) ==
    /\ Arrives(s)
    /\ LET c == Enter(NewCall("getUrl", NoReq),
                "url", "getUrl")
       IN  calls' = [calls EXCEPT ![s] =
               IF c.pc = "threw" THEN c ELSE Return(c, ResponseString(pageUrl[c.b]))]
    /\ UNCHANGED <<browserState, launched, live, pageUrl>>

\* getTextContent (lines 124-127).
getTextContent(s, selector) ==
    /\ Arrives(s)
    /\ calls' = [calls EXCEPT ![s] =
          Enter(NewCall("getTextContent", [NoReq EXCEPT !.selector = selector]),
                "textContent", "getTextContent")]
    /\ UNCHANGED <<browserState, launched, live, pageUrl>>

\* content?.toString() || "" (line 129); a null content is <<>>.
TextBody(content) == IF content = Null THEN "" ELSE content[1]

\* getTextContent (lines 127-130): page.textContent settles with a string or null.
getTextContentSettled(s) ==
    /\ \E content \in {Null, <<"text">>} :
          Settle(s, "getTextContent", ResponseString(TextBody(content)))
    /\ UNCHANGED <<browserState, launched, live, pageUrl>>

\* getDomProperty (lines 134-139): exists, then page.$(selector).
getDomProperty(s, selector, property) ==
    /\ Arrives(s)
    /\ calls' = [calls EXCEPT ![s] =
          Enter(NewCall("getDomProperty",
                        [NoReq EXCEPT !.selector = selector, !.property = property]),
                "$", "$")]
    /\ UNCHANGED <<browserState, launched, live, pageUrl>>

\* getBoolProperty (lines 151-156): exists, then page.$(selector).
getBoolProperty(s, selector, property) ==
    /\ Arrives(s)
    /\ calls' = [calls EXCEPT ![s] =
          Enter(NewCall("getBoolProperty",
                        [NoReq EXCEPT !.selector = selector, !.property = property]),
                "$", "$")]
    /\ UNCHANGED <<browserState, launched, live, pageUrl>>

\* The property read guarded by element?.getProperty: nothing is thrown for a
\* null element and the read is issued.
AfterElement_ReadsAnyway(c, r, element) ==
    Await([c EXCEPT !.local = IF element = {} THEN "null" ELSE "element"],
          r, "getProperty", c.b, "getProperty")

\* What follows exists(element, ...) at lines 140-142 and 157-159: a null
\* element throws the TypeError of element.getProperty, an element has its
\* property read.  local records which the handler's element is.
AfterElement(c, r, element) ==
    IF element = {} THEN Throw([c EXCEPT !.local = "null"], r, "TypeError")
    ELSE Await([c EXCEPT !.local = "element"], r, "getProperty", c.b, "getProperty")

\* getDomProperty (lines 139-142), getBoolProperty (lines 156-159): page.$
\* settles with an element ({selector}) or with null ({}).
querySettled(s) ==
    /\ Resumes(s, "$")
    /\ LET c == calls[s]
       IN  \E ok \in Outcomes(c.b), element \in {{}, {c.req.selector}} :
             calls' = [calls EXCEPT ![s] =
                 IF ok
                 THEN AfterElement(c, exists(element, c.resp,
                                   <<"Couldn't find element: ", c.req.selector>>), element)
                 ELSE Throw(c, c.resp, "engine")]
    /\ UNCHANGED <<browserState, launched, live, pageUrl>>

\* Lines 142-143 and 159-160: element.getProperty settles; jsonValue is issued.
getPropertySettled(s) ==
    /\ Resumes(s, "getProperty")
    /\ LET c == calls[s]
       IN  \E ok \in Outcomes(c.b) :
             calls' = [calls EXCEPT ![s] =
                 IF ok THEN Await(c, c.resp, "jsonValue", c.b, "jsonValue")
                 ELSE Throw(c, c.resp, "engine")]
    /\ UNCHANGED <<browserState, launched, live, pageUrl>>

\* content || false (line 164); an undefined content is <<>>.
BoolBody(content) == IF content = Null THEN FALSE ELSE content[1]

\* Lines 143-148 and 160-165: jsonValue settles; the body is the content
\* (getDomProperty) or content || false (getBoolProperty).
jsonValueSettled(s) ==
    /\ calls[s].pc = "jsonValue"
    /\ IF calls[s].op = "getDomProperty"
       THEN \E content \in {"on"} : Settle(s, "jsonValue", ResponseString(content))
       ELSE \E content \in {Null, <<TRUE>>, <<FALSE>>} :
               Settle(s, "jsonValue", ResponseBool(BoolBody(content)))
    /\ UNCHANGED <<browserState, launched, live, pageUrl>>

\* getSelectContent (lines 168-176).
getSelectContent(s, selector) ==
    /\ Arrives(s)
    /\ calls' = [calls EXCEPT ![s] =
          Enter(NewCall("getSelectContent", [NoReq EXCEPT !.selector = selector]),
                "$$eval", "getSelectContent")]
    /\ UNCHANGED <<browserState, launched, live, pageUrl>>

\* The option lists page.$$eval hands back: [label, value, selected] each.
OptionLists == {<<>>, << <<"A", "a", TRUE>>, <<"B", "b", FALSE>> >>}

\* Lines 178-186: one SelectEntry per option, in order.
SelectEntries(content) ==
    [i \in 1..Len(content) |->
        [label |-> content[i][1], value |-> content[i][2], selected |-> content[i][3]]]

\* getSelectContent (lines 173-187): page.$$eval settles.
getSelectContentSettled(s) ==
    /\ \E content \in OptionLists :
          Settle(s, "getSelectContent", ResponseSelect(SelectEntries(content)))
    /\ UNCHANGED <<browserState, launched, live, pageUrl>>

\* inputText (lines 190-194).
inputText(s, selector, input) ==
    /\ Arrives(s)
    /\ calls' = [calls EXCEPT ![s] =
          Enter(NewCall("inputText", [NoReq EXCEPT !.selector = selector, !.input = input]),
                "fill", "inputText")]
    /\ UNCHANGED <<browserState, launched, live, pageUrl>>

\* inputText (lines 194-197): page.fill settles.
inputTextSettled(s) ==
    /\ Settle(s, "inputText", emptyWithLog(<<"Input text: ", calls[s].req.input>>))
    /\ UNCHANGED <<browserState, launched, live, pageUrl>>

\* clickButton (lines 200-204).
clickButton(s, selector) ==
    /\ Arrives(s)
    /\ calls' = [calls EXCEPT ![s] =
          Enter(NewCall("clickButton", [NoReq EXCEPT !.selector = selector]),
                "click", "clickButton")]
    /\ UNCHANGED <<browserState, launched, live, pageUrl>>

\* clickButton (lines 204-206): page.click settles.
clickButtonSettled(s) ==
    /\ Settle(s, "clickButton", emptyWithLog(<<"Clicked button: ", calls[s].req.selector>>))
    /\ UNCHANGED <<browserState, launched, live, pageUrl>>

\* checkCheckbox (lines 209-212).
checkCheckbox(s, selector) ==
    /\ Arrives(s)
    /\ calls' = [calls EXCEPT ![s] =
          Enter(NewCall("checkCheckbox", [NoReq EXCEPT !.selector = selector]),
                "check", "checkCheckbox")]
    /\ UNCHANGED <<browserState, launched, live, pageUrl>>

\* checkCheckbox (lines 212-214): page.check settles.
checkCheckboxSettled(s) ==
    /\ Settle(s, "checkCheckbox", emptyWithLog(<<"Checked checkbox: ", calls[s].req.selector>>))
    /\ UNCHANGED <<browserState, launched, live, pageUrl>>

\* uncheckCheckbox (lines 216-219).
uncheckCheckbox(s, selector) ==
    /\ Arrives(s)
    /\ calls' = [calls EXCEPT ![s] =
          Enter(NewCall("uncheckCheckbox", [NoReq EXCEPT !.selector = selector]),
                "uncheck", "uncheckCheckbox")]
    /\ UNCHANGED <<browserState, launched, live, pageUrl>>

\* uncheckCheckbox (lines 219-221): page.uncheck settles.
uncheckCheckboxSettled(s) ==
    /\ Settle(s, "uncheckCheckbox", emptyWithLog(<<"Unhecked checkbox: ", calls[s].req.selector>>))
    /\ UNCHANGED <<browserState, launched, live, pageUrl>>

\* selectOption (lines 224-229).
selectOption(s, selector, matcher) ==
    /\ Arrives(s)
    /\ calls' = [calls EXCEPT ![s] =
          Enter(NewCall("selectOption", [NoReq EXCEPT !.selector = selector, !.matcher = matcher]),
                "selectOption", "selectOption")]
    /\ UNCHANGED <<browserState, launched, live, pageUrl>>

\* selectOption (lines 230-236): with an empty result the callback is called
\* with a NOT_FOUND error; there is no return, so the success response is
\* built and the callback called again.  local records whether the handler's
\* result is empty.
AfterSelect(c, result) ==
    LET r == IF Len(result) = 0
             THEN Append(c.resp, Callback(<<PwserverError(<<"No options matched ">> \o c.req.matcher,
                                                            NOT_FOUND)>>, Null))
             ELSE c.resp
    IN  Return([c EXCEPT !.resp = r, !.local = IF Len(result) = 0 THEN "empty" ELSE "options"],
               emptyWithLog(<<"Selected options ">> \o result \o <<" in element ", c.req.selector>>))

\* selectOption (lines 229-236): page.selectOption settles with the list of
\* the options selected.
selectOptionSettled(s) ==
    /\ Resumes(s, "selectOption")
    /\ LET c == calls[s]
       IN  \E ok \in Outcomes(c.b), result \in {<<>>, c.req.matcher} :
             calls' = [calls EXCEPT ![s] =
                 IF ok THEN AfterSelect(c, result) ELSE Throw(c, c.resp, "engine")]
    /\ UNCHANGED <<browserState, launched, live, pageUrl>>

\* screenshot (lines 245-250); the path gets the extension ".png".
screenshot(s, path) ==
    /\ Arrives(s)
    /\ calls' = [calls EXCEPT ![s] =
          Enter(NewCall("screenshot", [NoReq EXCEPT !.path = path]),
                "screenshot", "screenshot")]
    /\ UNCHANGED <<browserState, launched, live, pageUrl>>

\* screenshot (lines 250-253): page.screenshot settles.
screenshotSettled(s) ==
    /\ Settle(s, "screenshot", emptyWithLog(<<"Succesfully took screenshot">>))
    /\ UNCHANGED <<browserState, launched, live, pageUrl>>

\* health with the session check the other handlers open with.
health_ChecksSession(s) ==
    /\ Arrives(s)
    /\ LET c == NewCall("health", NoReq)
           r == exists(browserState, c.resp, <<"Tried to check health, no open browser">>)
       IN  calls' = [calls EXCEPT ![s] =
               IF browserState = {} THEN Throw(c, r, "TypeError")
               ELSE Return(c, ResponseString("OK"))]
    /\ UNCHANGED <<browserState, launched, live, pageUrl>>

\* health (lines 239-243).
health(s) ==
    /\ Arrives(s)
    /\ calls' = [calls EXCEPT ![s] = Return(NewCall("health", NoReq), ResponseString("OK"))]
    /\ UNCHANGED <<browserState, launched, live, pageUrl>>

\* A call arrives and its handler runs to its first await.
Dispatch(s) ==
    \/ \E k \in Kinds, u \in OpenUrls : openBrowser(s, k, u)
    \/ closeBrowser(s)
    \/ \E u \in Urls : goTo(s, u)
    \/ getTitle(s)
    \/ getUrl(s)
    \/ \E sel \in Selectors : getTextContent(s, sel)
    \/ \E sel \in Selectors, pr \in Properties : getDomProperty(s, sel, pr)
    \/ \E sel \in Selectors, pr \in Properties : getBoolProperty(s, sel, pr)
    \/ \E sel \in Selectors : getSelectContent(s, sel)
    \/ \E sel \in Selectors, in \in Inputs : inputText(s, sel, in)
    \/ \E sel \in Selectors : clickButton(s, sel)
    \/ \E sel \in Selectors : checkCheckbox(s, sel)
    \/ \E sel \in Selectors : uncheckCheckbox(s, sel)
    \/ \E sel \in Selectors, m \in Matchers : selectOption(s, sel, m)
    \/ health(s)
    \/ \E p \in Paths : screenshot(s, p)

\* An awaited engine promise settles and the handler runs on.
Resume(s) ==
    \/ launchSettled(s)
    \/ newContextSettled(s)
    \/ newPageSettled(s)
    \/ openUrlInPage(s)
    \/ closeSettled(s)
    \/ goToSettled(s)
    \/ getTitleSettled(s)
    \/ getTextContentSettled(s)
    \/ querySettled(s)
    \/ getPropertySettled(s)
    \/ jsonValueSettled(s)
    \/ getSelectContentSettled(s)
    \/ inputTextSettled(s)
    \/ clickButtonSettled(s)
    \/ checkCheckboxSettled(s)
    \/ uncheckCheckboxSettled(s)
    \/ selectOptionSettled(s)
    \/ screenshotSettled(s)

Next == \E s \in Slots : Dispatch(s) \/ Resume(s)

Spec == Init /\ [][Next]_vars

\* A client that calls one at a time, and opens, navigates, reads the URL,
\* selects options and closes.
SeqInit == Started /\ sequential = TRUE

SeqDispatch(s) ==
    \/ \E k \in Kinds, u \in OpenUrls : openBrowser(s, k, u)
    \/ closeBrowser(s)
    \/ \E u \in Urls : goTo(s, u)
    \/ getUrl(s)
    \/ \E sel \in Selectors, m \in Matchers : selectOption(s, sel, m)

SeqResume(s) ==
    \/ launchSettled(s)
    \/ newContextSettled(s)
    \/ newPageSettled(s)
    \/ openUrlInPage(s)
    \/ closeSettled(s)
    \/ goToSettled(s)
    \/ selectOptionSettled(s)

SeqNext == \E s \in Slots : SeqDispatch(s) \/ SeqResume(s)

SeqSpec == SeqInit /\ [][SeqNext]_vars

(***************************************************************************)
(* The vocabulary of the claims.                                           *)
(***************************************************************************)

\* The operations that need a session: all but openBrowser and health.
SessionOps ==
    {"closeBrowser", "goTo", "getTitle", "getUrl", "getTextContent", "getDomProperty",
     "getBoolProperty", "getSelectContent", "inputText", "clickButton", "checkCheckbox",
     "uncheckCheckbox", "selectOption", "screenshot"}

SupportedKinds == {"chrome", "firefox", "webkit"}

\* The status code the claims ask of an unsupported kind; the source never
\* names it.
INVALID_ARGUMENT == "INVALID_ARGUMENT"

\* One invocation of the callback: a failure, a success.
IsFailure(r) == r.err # Null
IsSuccess(r) == r.value # Null
Code(r) == r.err[1].code
Message(r) == r.err[1].message

\* The responses a call has delivered so far.
Failures(c) == {i \in 1..Len(c.resp) : IsFailure(c.resp[i])}
Successes(c) == {i \in 1..Len(c.resp) : IsSuccess(c.resp[i])}

\* The names of the engine calls a call has issued so far.
Issued(c) == {c.eng[i][1] : i \in 1..Len(c.eng)}

\* This step, a call arrives in slot s.
Dispatched(s) == Ended(calls[s]) /\ calls'[s] # calls[s]

\* C1: an operation other than OpenBrowser and Health that is invoked while
\* the session reference is absent delivers one failure, FailedPrecondition,
\* and its handler ends in the same step without having issued an engine call.
C1_NoSessionFailsBeforeEngine ==
    [][\A s \in Slots :
          (Dispatched(s) /\ calls'[s].op \in SessionOps /\ browserState = {})
          => /\ Ended(calls'[s])
             /\ Len(calls'[s].resp) = 1
             /\ IsFailure(calls'[s].resp[1])
             /\ Code(calls'[s].resp[1]) = FAILED_PRECONDITION
             /\ calls'[s].eng = <<>>]_vars

\* C1's case: with no session, two different session operations have been
\* invoked and each was answered FailedPrecondition with no engine call.
C1_Witness ==
    /\ browserState = {}
    /\ calls[1].op = "goTo" /\ calls[2].op = "closeBrowser"
    /\ \A s \in {1, 2} :
          /\ calls[s].pc = "threw"
          /\ Len(calls[s].resp) = 1
          /\ Code(calls[s].resp[1]) = FAILED_PRECONDITION
          /\ calls[s].eng = <<>>

\* C2: every call has its callback invoked exactly once by the time its
\* handler ends and never more than once before, each invocation carries
\* exactly one of failure and success, and no call delivers both a failure and
\* a success.
C2_ExactlyOneResponse ==
    \A s \in Slots :
        LET c == calls[s]
        IN  /\ Len(c.resp) <= 1
            /\ c.pc \in {"done", "threw"} => Len(c.resp) = 1
            /\ \A i \in 1..Len(c.resp) : IsFailure(c.resp[i]) # IsSuccess(c.resp[i])
            /\ ~(Failures(c) # {} /\ Successes(c) # {})

\* C3: OpenBrowser with a kind outside chrome, firefox, webkit has, when its
\* handler has ended, delivered a failure, and the failure's code is
\* InvalidArgument.
C3_UnsupportedKindInvalidArgument ==
    \A s \in Slots :
        LET c == calls[s]
        IN  (c.op = "openBrowser" /\ c.req.browser \notin SupportedKinds /\ Ended(c))
            => /\ Failures(c) # {}
               /\ \A i \in Failures(c) : Code(c.resp[i]) = INVALID_ARGUMENT

\* C4: OpenBrowser with an unsupported kind ends in the step it arrives in,
\* having issued no engine call, and leaves the session reference and the
\* engine as they were.
C4_UnsupportedKindNoEffect ==
    [][\A s \in Slots :
          (Dispatched(s) /\ calls'[s].op = "openBrowser"
              /\ calls'[s].req.browser \notin SupportedKinds)
          => /\ Ended(calls'[s])
             /\ calls'[s].eng = <<>>
             /\ browserState' = browserState
             /\ launched' = launched
             /\ live' = live]_vars

\* C4's case: OpenBrowser with an unsupported kind has ended while a session
\* is present.
C4_Witness ==
    /\ browserState # {}
    /\ \E s \in Slots :
          /\ calls[s].op = "openBrowser"
          /\ calls[s].req.browser \notin SupportedKinds
          /\ calls[s].pc = "threw"
          /\ calls[s].eng = <<>>

\* C5: in a sequential run, a CloseBrowser that follows an OpenBrowser that
\* succeeded ends with one success delivered and the session reference
\* absent, and a CloseBrowser that follows that CloseBrowser ends with one
\* FailedPrecondition failure delivered and no engine close issued.
C5_CloseThenCloseAgain ==
    LET c == calls[1]
        n == Len(recent)
        Opened(k) == recent[k] = [op |-> "openBrowser", returned |-> TRUE]
    IN  (sequential /\ c.op = "closeBrowser" /\ Ended(c))
        => /\ (n >= 1 /\ Opened(n))
              => /\ Len(c.resp) = 1
                 /\ IsSuccess(c.resp[1])
                 /\ browserState = {}
           /\ (n >= 2 /\ recent[n].op = "closeBrowser" /\ Opened(n - 1))
              => /\ Len(c.resp) = 1
                 /\ IsFailure(c.resp[1])
                 /\ Code(c.resp[1]) = FAILED_PRECONDITION
                 /\ "close" \notin Issued(c)

\* C6: when the handler of a CloseBrowser that found a session ends, the
\* session reference is absent, whether browser.close() resolved or rejected.
C6_CloseAlwaysClears ==
    [][\A s \in Slots :
          (calls[s].op = "closeBrowser" /\ calls[s].pc = "close" /\ Ended(calls'[s]))
          => browserState' = {}]_vars

\* C7: no call ends without a response, and a call whose handler failed has
\* delivered a failure.
C7_FailureIsDelivered ==
    \A s \in Slots :
        LET c == calls[s]
        IN  /\ c.pc \in {"done", "threw"} => Len(c.resp) >= 1
            /\ c.pc = "threw" => Failures(c) # {}

\* C8: SelectOption invoked with a session present issues the engine's
\* selectOption and has delivered nothing while it awaits it, and when the
\* engine hands back an empty list the call delivers a NotFound failure and
\* no success.
C8_SelectOptionNotFound ==
    [][\A s \in Slots :
          /\ (Dispatched(s) /\ calls'[s].op = "selectOption" /\ browserState # {})
             => /\ "selectOption" \in Issued(calls'[s])
                /\ calls'[s].resp = <<>>
          /\ (calls[s].pc = "selectOption" /\ calls'[s].local = "empty")
             => /\ Failures(calls'[s]) # {}
                /\ \A i \in Failures(calls'[s]) : Code(calls'[s].resp[i]) = NOT_FOUND
                /\ Successes(calls'[s]) = {}]_vars

\* C9: GetDomProperty and GetBoolProperty whose selector matched no element
\* deliver one failure, FailedPrecondition, whose message holds the selector
\* and is not the message of the missing session, and read no property.
C9_MissingElement ==
    \A s \in Slots :
        LET c == calls[s]
        IN  (c.op \in {"getDomProperty", "getBoolProperty"} /\ c.local = "null")
            => /\ Len(c.resp) = 1
               /\ IsFailure(c.resp[1])
               /\ Code(c.resp[1]) = FAILED_PRECONDITION
               /\ \E i \in 1..Len(Message(c.resp[1])) : Message(c.resp[1])[i] = c.req.selector
               /\ Message(c.resp[1]) # NoBrowserMessage(c.op)
               /\ Issued(c) \cap {"getProperty", "jsonValue"} = {}

\* C9's case: a GetDomProperty and a GetBoolProperty have each ended on a
\* selector that matched nothing.
C9_Witness ==
    /\ calls[1].op = "getDomProperty" /\ calls[2].op = "getBoolProperty"
    /\ \A s \in {1, 2} :
          /\ calls[s].local = "null"
          /\ calls[s].pc = "threw"
          /\ "$" \in Issued(calls[s])

\* C10: at most one browser is launched and not yet closed.
C10_AtMostOneSession == Cardinality(live) <= 1

\* No handler is between its dispatch and its end.
Quiet == \A s \in Slots : Ended(calls[s])

\* C11: the session reference is absent before any call, and whenever it is
\* absent and no handler is in flight, no launched browser is left unclosed,
\* whatever OpenBrowser and CloseBrowser calls ran and whichever of their
\* engine calls failed.
C11_AbsentSessionNoBrowser ==
    /\ (launched = 0 /\ \A s \in Slots : calls[s].op = "none") => browserState = {}
    /\ (browserState = {} /\ Quiet) => live = {}

\* C12: Health, in whatever state it arrives (session present or absent, the
\* other slot's call in flight or not), ends in the step it arrives in having
\* delivered the one success "OK" and no failure, issued no engine call, and
\* left the session reference as it was.
C12_HealthAlwaysOK ==
    [][\A s \in Slots :
          (Dispatched(s) /\ calls'[s].op = "health")
          => /\ calls'[s].pc = "done"
             /\ calls'[s].resp = <<Callback(Null, <<ResponseString("OK")>>)>>
             /\ calls'[s].eng = <<>>
             /\ browserState' = browserState]_vars

\* C12's case: Health has answered with a session present while a
\* CloseBrowser awaits the engine.
C12_Witness ==
    /\ calls[1].op = "health" /\ calls[1].pc = "done"
    /\ calls[1].resp = <<Callback(Null, <<ResponseString("OK")>>)>>
    /\ browserState # {} /\ calls[2].pc = "close"

\* C13: in a sequential run, when an OpenBrowser with a supported kind and an
\* initial URL has ended because the navigation to that URL failed, the session
\* reference is present and holds the browser, context and page that call
\* created.
C13_FailedNavigationKeepsSession ==
    LET c == calls[1]
    IN  (sequential /\ c.op = "openBrowser" /\ c.req.browser \in SupportedKinds
            /\ c.req.url # "" /\ c.pc = "threw" /\ "goto" \in Issued(c))
        => /\ browserState = {BrowserState(c.b, c.b, c.b)}
           /\ c.b = launched

\* C13's case: while a session was present, an OpenBrowser with an initial URL
\* has launched a second browser and ended on the failure of its navigation.
C13_Witness ==
    /\ sequential
    /\ calls[1].op = "openBrowser" /\ calls[1].req.url \in Urls
    /\ calls[1].pc = "threw" /\ calls[1].err = "engine"
    /\ calls[1].eng[Len(calls[1].eng)] = <<"goto", 2>>
    /\ browserState # {}

\* The status codes a failure may carry.
FailureCodes == {FAILED_PRECONDITION, NOT_FOUND, INVALID_ARGUMENT}

\* C14: every failure a call has delivered carries a message and one of the
\* codes FailedPrecondition, NotFound, InvalidArgument, and a handler that
\* ended by failing has delivered such a failure: no failure leaves a handler
\* without one of these codes.
C14_FailuresCarryFixedCodes ==
    \A s \in Slots :
        LET c == calls[s]
        IN  /\ \A i \in Failures(c) :
                  /\ Code(c.resp[i]) \in FailureCodes
                  /\ Message(c.resp[i]) # <<>>
            /\ c.pc = "threw"
                  => \E i \in Failures(c) : Code(c.resp[i]) \in FailureCodes

\* This step, in a sequential run, a GetUrl arrives right after a GoTo that
\* succeeded.
GetUrlAfterGoTo ==
    /\ sequential /\ Dispatched(1)
    /\ calls[1].op = "goTo" /\ calls[1].pc = "done"
    /\ calls'[1].op = "getUrl"

\* C15: in a sequential run with a session present, a GetUrl that follows a
\* GoTo(u) that succeeded, with no call in between, returns exactly u.
C15_GetUrlReturnsGoToUrl ==
    [][GetUrlAfterGoTo
       => calls'[1].resp = <<Callback(Null, <<ResponseString(calls[1].req.url)>>)>>]_vars

\* C15 as amended: that GetUrl delivers one success whose body is the address
\* the page of the current session is at, which is where the navigation to u
\* landed: u, or the address the engine redirected or rewrote u to.
C15_GetUrlReturnsLanding ==
    [][GetUrlAfterGoTo
       => /\ calls'[1].pc = "done"
          /\ calls'[1].resp = <<Callback(Null, <<ResponseString(pageUrl[Current.page])>>)>>
          /\ pageUrl[Current.page] \in Landings(calls[1].req.url)]_vars

\* C15's case: with two browsers launched, a GetUrl has answered right after
\* a GoTo that succeeded.
C15_Witness ==
    /\ sequential /\ launched = 2
    /\ calls[1].op = "getUrl" /\ calls[1].pc = "done"
    /\ Len(recent) >= 1 /\ recent[Len(recent)] = [op |-> "goTo", returned |-> TRUE]
    /\ calls[1].resp[1].value[1].String \in Landings("http://a")

\* This step is a step of the handler of the call in slot s.
StepOf(s) == calls'[s] # calls[s]

\* C16: in a sequential run, an OpenBrowser with a supported kind that arrived
\* while a session S1 was present and whose session S2 is created stores S2
\* in place of S1; no step of the call issues a close or takes a browser from
\* the launched ones, so S1's browser is still launched, and the reference no
\* longer leads to it.
C16_OpenReplacesWithoutClosing ==
    [][\A s \in Slots :
          (sequential /\ StepOf(s) /\ calls'[s].op = "openBrowser")
          => /\ "close" \notin Issued(calls'[s])
             /\ live \subseteq live'
             /\ (calls[s].pc = "newPage" /\ calls'[s].pc # "threw" /\ browserState # {})
                => /\ calls[s].req.browser \in SupportedKinds
                   /\ browserState' = {BrowserState(calls[s].b, calls[s].b, calls[s].b)}
                   /\ Current.browser # calls[s].b
                   /\ Current.browser \in live'
                   /\ \A bs \in browserState' : bs.browser # Current.browser]_vars

\* C16's case: a second OpenBrowser has returned; the reference holds its
\* session and the first session's browser is still launched.
C16_Witness ==
    /\ sequential
    /\ calls[1].op = "openBrowser" /\ calls[1].pc = "done"
    /\ browserState = {BrowserState(2, 2, 2)}
    /\ live = {1, 2}

\* This step, the CloseBrowser in slot s has its browser.close() resolve.
CloseResolves(s) ==
    /\ calls[s].op = "closeBrowser" /\ calls[s].pc = "close"
    /\ calls'[s].pc = "done"

\* C17: whenever a CloseBrowser clears the session reference, the session it
\* clears is the one whose browser that call closed, also when OpenBrowser
\* calls interleave with it.
C17_CloseClearsOwnSession ==
    [][\A s \in Slots :
          (CloseResolves(s) /\ browserState # {} /\ browserState' = {})
          => Current.browser = calls[s].b]_vars

\* C17 as amended: a CloseBrowser asks the engine to close the browser of the
\* session stored when the call arrives, and nothing else; when that close
\* resolves, that browser is closed and the reference is made absent whatever
\* session it holds by then, and a session other than the one closed keeps
\* its browser launched.
C17_CloseClearsWhateverIsStored ==
    [][\A s \in Slots :
          /\ (Dispatched(s) /\ calls'[s].op = "closeBrowser" /\ browserState # {})
             => calls'[s].eng = << <<"close", Current.browser>> >>
          /\ CloseResolves(s)
             => /\ calls[s].eng = << <<"close", calls[s].b>> >>
                /\ browserState' = {}
                /\ live' = live \ {calls[s].b}]_vars

\* C17's case: a CloseBrowser asked browser 1 to close; while it waited, an
\* OpenBrowser stored the session of browser 2; the close resolved and the
\* reference is absent, with browser 2 still launched.
C17_Witness ==
    /\ calls[2].op = "closeBrowser" /\ calls[2].pc = "done" /\ calls[2].b = 1
    /\ calls[1].op = "openBrowser" /\ calls[1].pc = "done" /\ calls[1].b = 2
    /\ browserState = {}
    /\ live = {2}

\* The engine calls on a page the claims call page-level: navigate, title,
\* query, fill, click, check, select, screenshot.
PageOps ==
    {"goto", "title", "textContent", "$", "$$eval", "fill", "click", "check", "uncheck",
     "selectOption", "screenshot"}

\* The engine calls the handler in slot s issues in this step.
NewlyIssued(s) ==
    LET from == IF Dispatched(s) THEN 1 ELSE Len(calls[s].eng) + 1
    IN  {calls'[s].eng[i] : i \in from..Len(calls'[s].eng)}

\* A CloseBrowser among the calls the server holds has asked browser bh to close.
AskedToClose(bh) ==
    \E t \in Slots : \E i \in 1..Len(calls[t].eng) : calls[t].eng[i] = <<"close", bh>>

\* C18: no page-level engine operation and no close is issued on a browser
\* that a CloseBrowser has already asked to close, under any interleaving.
C18_NothingAfterCloseAsked ==
    [][\A s \in Slots : \A e \in NewlyIssued(s) :
          e[1] \in PageOps \cup {"close"} => ~AskedToClose(e[2])]_vars

\* C18 as amended: every page-level engine operation and every close is
\* issued on a browser that is launched and has had no close resolve.
C18_NothingAfterCloseResolved ==
    [][\A s \in Slots : \A e \in NewlyIssued(s) :
          e[1] \in PageOps \cup {"close"} => e[2] \in live]_vars

\* C18's case: on browser 1, still launched, one CloseBrowser has had its
\* close rejected and another has asked it to close as well.
C18_Witness ==
    /\ live = {1}
    /\ calls[1].op = "closeBrowser" /\ calls[1].pc = "threw"
    /\ calls[1].eng = << <<"close", 1>> >>
    /\ calls[2].op = "closeBrowser" /\ calls[2].pc = "close"
    /\ calls[2].eng = << <<"close", 1>> >>

\* The operations whose handlers assign this.browserState.
SessionWriters == {"openBrowser", "closeBrowser"}

\* C19: only OpenBrowser and CloseBrowser write the session reference: a
\* step of any other handler, be it its arrival, a precondition failure, an
\* engine failure or its success, leaves the reference as it was, and every
\* step that changes the reference is a step of one of those two.
C19_OnlyOpenAndCloseWrite ==
    [][/\ \A s \in Slots :
             (StepOf(s) /\ calls'[s].op \notin SessionWriters)
             => browserState' = browserState
       /\ browserState' # browserState
             => \E s \in Slots : StepOf(s) /\ calls'[s].op \in SessionWriters]_vars

\* C19's case: with a session present, a GoTo has ended on an engine failure
\* and a ClickButton on its success.
C19_Witness ==
    /\ browserState # {}
    /\ calls[1].op = "goTo" /\ calls[1].pc = "threw" /\ calls[1].err = "engine"
    /\ calls[2].op = "clickButton" /\ calls[2].pc = "done"

\* C20: a step of an OpenBrowser changes the session reference only when its
\* launch, newContext and newPage have all resolved; the step in which one of
\* the three rejects leaves the reference as it was; and a stored session is
\* always the whole triple of a launched browser, its context and its page.
C20_OpenWritesAfterAllThree ==
    [][/\ \A s \in Slots :
             (StepOf(s) /\ calls'[s].op = "openBrowser")
             => /\ browserState' # browserState
                   => /\ calls[s].pc = "newPage" /\ calls'[s].pc # "threw"
                      /\ {createBrowserState(calls[s].req.browser), "newContext", "newPage"}
                            \subseteq Issued(calls[s])
                      /\ calls[s].b \in 1..launched
                      /\ browserState' = {BrowserState(calls[s].b, calls[s].b, calls[s].b)}
                /\ (calls[s].pc \in {"launch", "newContext", "newPage"}
                       /\ calls'[s].pc = "threw")
                   => browserState' = browserState
       /\ \A bs \in browserState' :
             bs.browser \in 1..launched' /\ bs.context = bs.browser /\ bs.page = bs.browser]_vars

\* C20's case: with the session of browser 1 present, one OpenBrowser has
\* ended on a rejected launch and another, having launched browser 2, on a
\* rejected newPage.
C20_Witness ==
    /\ browserState = {BrowserState(1, 1, 1)}
    /\ \E s, t \in Slots :
          /\ calls[s].op = "openBrowser" /\ calls[s].pc = "threw"
          /\ Len(calls[s].eng) = 1
          /\ calls[t].op = "openBrowser" /\ calls[t].pc = "threw"
          /\ Len(calls[t].eng) = 3 /\ calls[t].eng[3] = <<"newPage", 2>>

====
